---------------------------- MODULE Spec2Model ----------------------------
(***************************************************************************)
(* A model of upstreams-rs: the version extractor (src/src/versioning.rs), *)
(* the hosts (src/src/host/*.rs), the dispatcher (src/src/host/mod.rs) and *)
(* the command line driver (src/src/main.rs).                              *)
(*                                                                         *)
(* Rust strings are TLA+ strings; Ch(s, i) is the i-th character (1-based).*)
(* Option<T> is None or Some(v); Result<T, E> is Ok(v) or Err(e).          *)
(***************************************************************************)
EXTENDS Integers, Sequences, FiniteSets, TLC

(***************************************************************************)
(* Option, Result and string helpers (the std calls the sources make).     *)
(***************************************************************************)
None == [some |-> FALSE]
Some(v) == [some |-> TRUE, v |-> v]
Ok(v) == [ok |-> TRUE, v |-> v]
Err(e) == [ok |-> FALSE, e |-> e]

Ch(s, i) == SubSeq(s, i, i)
From(s, i) == SubSeq(s, i, Len(s))

\* str::starts_with
StartsWith(s, p) == Len(p) <= Len(s) /\ SubSeq(s, 1, Len(p)) = p

\* str::contains
Contains(s, p) == \E i \in 1..(Len(s) - Len(p) + 1) : SubSeq(s, i, i + Len(p) - 1) = p

\* the position of the first character of s, at or after i, that is in cs; Len(s)+1 when none
RECURSIVE FindAny(_, _, _)
FindAny(s, cs, i) ==
    IF i > Len(s) THEN Len(s) + 1
    ELSE IF Ch(s, i) \in cs THEN i
    ELSE FindAny(s, cs, i + 1)

\* str::split(c), collected: always at least one piece
RECURSIVE Split(_, _)
Split(s, c) ==
    LET i == FindAny(s, {c}, 1)
    IN  IF i > Len(s) THEN <<s>>
        ELSE <<SubSeq(s, 1, i - 1)>> \o Split(From(s, i + 1), c)

\* Iterator::filter(|x| !x.is_empty())
RECURSIVE NonEmpty(_)
NonEmpty(parts) ==
    IF parts = <<>> THEN <<>>
    ELSE IF Head(parts) = "" THEN NonEmpty(Tail(parts))
    ELSE <<Head(parts)>> \o NonEmpty(Tail(parts))

\* str::trim_start_matches(c)
RECURSIVE TrimStart(_, _)
TrimStart(s, c) == IF Len(s) > 0 /\ Ch(s, 1) = c THEN TrimStart(Tail(s), c) ELSE s

\* [String]::join(sep)
RECURSIVE Join(_, _)
Join(parts, sep) ==
    IF parts = <<>> THEN ""
    ELSE IF Len(parts) = 1 THEN parts[1]
    ELSE parts[1] \o sep \o Join(Tail(parts), sep)

\* slice::last, slice::get (0-based index)
Last(parts) == IF parts = <<>> THEN None ELSE Some(parts[Len(parts)])
Get(parts, n) == IF n < Len(parts) THEN Some(parts[n + 1]) ELSE None

(***************************************************************************)
(* The regular expressions of the pattern table.  A pattern is a syntax    *)
(* tree; Step gives, in the regex crate's leftmost-first preference order, *)
(* every way the tree can match from a position.  The first way that       *)
(* reaches the end of the tree, from the leftmost start that has one, is   *)
(* the match Regex::captures returns.                                      *)
(***************************************************************************)
Digits == {"0", "1", "2", "3", "4", "5", "6", "7", "8", "9"}
Letters == {"a", "b", "c", "d", "e", "f", "g", "h", "i", "j", "k", "l", "m",
            "n", "o", "p", "q", "r", "s", "t", "u", "v", "w", "x", "y", "z",
            "A", "B", "C", "D", "E", "F", "G", "H", "I", "J", "K", "L", "M",
            "N", "O", "P", "Q", "R", "S", "T", "U", "V", "W", "X", "Y", "Z"}

InClass(k, c) ==
    CASE k = "digit"       -> c \in Digits                         \* \d
      [] k = "word"        -> c \in Digits \cup Letters \cup {"_"} \* \w
      [] k = "notslash"    -> c # "/"                              \* [^/]
      [] k = "notdashslash"-> c \notin {"-", "/"}                  \* [^-/]
      [] k = "dashunder"   -> c \in {"-", "_"}                     \* [-_]
      [] k = "dotunder"    -> c \in {".", "_"}                     \* [._]
      [] k = "dashdot"     -> c \in {"-", "."}                     \* [-.]
      [] k = "dashunderdot"-> c \in {"-", "_", "."}                \* [-_.]
      [] k = "digitdot"    -> c \in Digits \cup {"."}              \* [\d.]
      [] k = "any"         -> c # "\n"                             \* .

Lit(c) == [t |-> "lit", c |-> c]
Cls(k) == [t |-> "cls", k |-> k]
Cat(rs) == [t |-> "cat", rs |-> rs]
Alt(rs) == [t |-> "alt", rs |-> rs]
Opt(r) == [t |-> "opt", r |-> r]
Star(r) == [t |-> "star", r |-> r]
LazyStar(r) == [t |-> "lazystar", r |-> r]
Plus(r) == Cat(<<r, Star(r)>>)
LazyPlus(r) == Cat(<<r, LazyStar(r)>>)
Rep(r, n) == Cat([i \in 1..n |-> r])
Cap(n, r) == [t |-> "cap", n |-> n, r |-> r]
End == [t |-> "end"]
Word(w) == Cat([i \in 1..Len(w) |-> Lit(Ch(w, i))])

\* a matcher thread: the position reached (characters consumed) and the groups set so far
Thread(pos) == [pos |-> pos, name |-> None, version |-> None]

SetGroup(th, n, span) ==
    IF n = "name" THEN [th EXCEPT !.name = Some(span)]
    ELSE [th EXCEPT !.version = Some(span)]

\* c* (greedy) or c*? (lazy) of one character class c from a thread: the run of
\* characters in the class that follows, every prefix of it a way to match, the
\* longest first when greedy and the shortest first when lazy
Run(k, s, th, greedy) ==
    LET stops == {j \in (th.pos + 1)..Len(s) : ~InClass(k, Ch(s, j))}
        last == IF stops = {} THEN Len(s)
                ELSE (CHOOSE j \in stops : \A j2 \in stops : j <= j2) - 1
        n == last - th.pos + 1
    IN  [i \in 1..n |-> [th EXCEPT !.pos = IF greedy THEN last - i + 1 ELSE th.pos + i - 1]]

RECURSIVE Step(_, _, _), StepAll(_, _, _), CatFrom(_, _, _, _), AltFrom(_, _, _, _)
Step(re, s, th) ==
    CASE re.t = "lit" ->
            IF th.pos < Len(s) /\ Ch(s, th.pos + 1) = re.c
            THEN <<[th EXCEPT !.pos = @ + 1]>> ELSE <<>>
      [] re.t = "cls" ->
            IF th.pos < Len(s) /\ InClass(re.k, Ch(s, th.pos + 1))
            THEN <<[th EXCEPT !.pos = @ + 1]>> ELSE <<>>
      [] re.t = "end" -> IF th.pos = Len(s) THEN <<th>> ELSE <<>>
      [] re.t = "cat" -> CatFrom(re.rs, 1, s, <<th>>)
      [] re.t = "alt" -> AltFrom(re.rs, 1, s, th)
      [] re.t = "opt" -> Step(re.r, s, th) \o <<th>>
      [] re.t = "star" ->
            IF re.r.t = "cls" THEN Run(re.r.k, s, th, TRUE)
            ELSE LET once == SelectSeq(Step(re.r, s, th), LAMBDA x : x.pos > th.pos)
                 IN  StepAll(re, s, once) \o <<th>>
      [] re.t = "lazystar" ->
            IF re.r.t = "cls" THEN Run(re.r.k, s, th, FALSE)
            ELSE LET once == SelectSeq(Step(re.r, s, th), LAMBDA x : x.pos > th.pos)
                 IN  <<th>> \o StepAll(re, s, once)
      [] re.t = "cap" ->
            LET inner == Step(re.r, s, th)
            IN  [i \in 1..Len(inner) |->
                    SetGroup(inner[i], re.n, SubSeq(s, th.pos + 1, inner[i].pos))]

StepAll(re, s, ths) ==
    IF ths = <<>> THEN <<>>
    ELSE IF Len(ths) = 1 THEN Step(re, s, ths[1])
    ELSE LET half == Len(ths) \div 2
         IN  StepAll(re, s, SubSeq(ths, 1, half)) \o StepAll(re, s, SubSeq(ths, half + 1, Len(ths)))

CatFrom(rs, i, s, ths) ==
    IF i > Len(rs) \/ ths = <<>> THEN ths
    ELSE CatFrom(rs, i + 1, s, StepAll(rs[i], s, ths))

AltFrom(rs, i, s, th) ==
    IF i > Len(rs) THEN <<>>
    ELSE Step(rs[i], s, th) \o AltFrom(rs, i + 1, s, th)

\* Regex::captures: an unanchored search, leftmost start first
RECURSIVE CapturesFrom(_, _, _)
CapturesFrom(re, s, start) ==
    IF start > Len(s) THEN None
    ELSE LET ways == Step(re, s, Thread(start))
         IN  IF ways # <<>> THEN Some(ways[1])
             ELSE CapturesFrom(re, s, start + 1)

Captures(re, s) == CapturesFrom(re, s, 0)

(***************************************************************************)
(* Url::parse of the url crate, for the URLs this program is given:        *)
(* scheme ":" then, for a special scheme or after "//", a host up to the   *)
(* next "/", "?" or "#", a path up to "?" or "#", and the rest.  The host  *)
(* is lower-cased and an empty path of a special scheme is "/".  A URL     *)
(* without "//" after a non-special scheme cannot be a base: it has no     *)
(* host and no path segments.  Ports, credentials, percent-encoding and    *)
(* dot segments do not occur in the inputs of this model.                  *)
(***************************************************************************)
LowerCh(c) ==
    CASE c = "A" -> "a" [] c = "B" -> "b" [] c = "C" -> "c" [] c = "D" -> "d"
      [] c = "E" -> "e" [] c = "F" -> "f" [] c = "G" -> "g" [] c = "H" -> "h"
      [] c = "I" -> "i" [] c = "J" -> "j" [] c = "K" -> "k" [] c = "L" -> "l"
      [] c = "M" -> "m" [] c = "N" -> "n" [] c = "O" -> "o" [] c = "P" -> "p"
      [] c = "Q" -> "q" [] c = "R" -> "r" [] c = "S" -> "s" [] c = "T" -> "t"
      [] c = "U" -> "u" [] c = "V" -> "v" [] c = "W" -> "w" [] c = "X" -> "x"
      [] c = "Y" -> "y" [] c = "Z" -> "z" [] OTHER -> c

RECURSIVE Lower(_)
Lower(s) == IF s = "" THEN "" ELSE LowerCh(Ch(s, 1)) \o Lower(Tail(s))

SpecialSchemes == {"http", "https", "ftp", "ws", "wss", "file"}

ValidScheme(s) ==
    /\ Len(s) > 0
    /\ Ch(s, 1) \in Letters
    /\ \A i \in 1..Len(s) : Ch(s, i) \in Letters \cup Digits \cup {"+", "-", "."}

\* in a URL of a special scheme a "\\" before the query stands for a "/"
RECURSIVE Slashes(_)
Slashes(s) ==
    IF s = "" THEN ""
    ELSE (IF Ch(s, 1) = "\\" THEN "/" ELSE Ch(s, 1)) \o Slashes(Tail(s))

\* what follows the scheme, as the parser reads it
AfterScheme(special, raw) ==
    LET cut == FindAny(raw, {"?", "#"}, 1)
    IN  IF special THEN Slashes(SubSeq(raw, 1, cut - 1)) \o From(raw, cut) ELSE raw

\* the authority and the path of a URL that has them
Hierarchical(scheme, special, after) ==
    LET hostEnd == FindAny(after, {"/", "?", "#"}, 1)
        host == Lower(SubSeq(after, 1, hostEnd - 1))
        tail == From(after, hostEnd)
        pathEnd == FindAny(tail, {"?", "#"}, 1)
        rawPath == SubSeq(tail, 1, pathEnd - 1)
    IN  IF host = "" /\ special /\ scheme # "file" THEN Err("EmptyHost")
        ELSE Ok([scheme |-> scheme,
                 host |-> IF host = "" THEN None ELSE Some(host),
                 path |-> IF rawPath = "" /\ special THEN "/" ELSE rawPath,
                 rest |-> From(tail, pathEnd),
                 base |-> TRUE])

\* a URL that cannot be a base: no authority, an opaque path
Opaque(scheme, rest) ==
    LET pathEnd == FindAny(rest, {"?", "#"}, 1)
    IN  Ok([scheme |-> scheme, host |-> None,
            path |-> SubSeq(rest, 1, pathEnd - 1),
            rest |-> From(rest, pathEnd),
            base |-> FALSE])

Schemed(scheme, special, rest) ==
    IF special THEN Hierarchical(scheme, special, TrimStart(rest, "/"))
    ELSE IF StartsWith(rest, "//") THEN Hierarchical(scheme, special, From(rest, 3))
    ELSE Opaque(scheme, rest)

UrlScheme(s, colon, scheme) ==
    IF colon > Len(s) \/ ~ValidScheme(scheme) THEN Err("RelativeUrlWithoutBase")
    ELSE Schemed(scheme, scheme \in SpecialSchemes,
                 AfterScheme(scheme \in SpecialSchemes, From(s, colon + 1)))

UrlColon(s, colon) == UrlScheme(s, colon, Lower(SubSeq(s, 1, colon - 1)))

UrlParse(s) == UrlColon(s, FindAny(s, {":"}, 1))

\* Url::host_str, Url::path, Url::scheme
host_str(url) == url.host
\* Url::path_segments: None for a URL that cannot be a base
path_segments(url) == IF url.base THEN Some(Split(Tail(url.path), "/")) ELSE None
\* Url::as_ref / Display: the serialization
as_ref(url) ==
    IF url.base
    THEN url.scheme \o "://" \o (IF url.host.some THEN url.host.v ELSE "") \o url.path \o url.rest
    ELSE url.scheme \o ":" \o url.path \o url.rest

(***************************************************************************)
(* versioning.rs: the pattern table and the extractor.                     *)
(***************************************************************************)
D == Cls("digit")

\* (?:\.(?:tar(?:\.[^/]*)?|zip|tgz))
ArchiveSuffix ==
    Cat(<<Lit("."),
          Alt(<<Cat(<<Word("tar"), Opt(Cat(<<Lit("."), Star(Cls("notslash"))>>))>>),
                Word("zip"),
                Word("tgz")>>)>>)

\* a pattern whose version group opens before the v?
Named_v_captured(version, tail) ==
    Cat(<<Cap("name", Plus(Cls("notslash"))),
          Cls("dashunder"),
          Cap("version", Cat(<<Opt(Lit("v")), version>>))>> \o tail \o <<End>>)

\* (?P<name>[^/]+) [-_] v? (?P<version>...) <tail> $
Named(version, tail) ==
    Cat(<<Cap("name", Plus(Cls("notslash"))),
          Cls("dashunder"),
          Opt(Lit("v")),
          Cap("version", version)>> \o tail \o <<End>>)

Regex5 ==
    Named(Cat(<<Rep(D, 8), Opt(Cat(<<Lit("-"), Plus(D), Lit("."), Plus(D)>>))>>),
          <<Opt(ArchiveSuffix)>>)

Regex10 ==
    Named(Cat(<<Plus(D), Cls("dotunder"), Plus(D), Cls("dotunder"), Plus(D),
                Star(Cat(<<Cls("dashdot"),
                           Alt(<<Word("rc"), Word("alpha"), Word("beta"), Word("dev"),
                                 Word("pre"), Word("post"), Word("build"), Plus(D)>>)>>))>>),
          <<Opt(ArchiveSuffix)>>)

Regex25 ==
    Named(Cat(<<Rep(D, 4), Cls("dotunder"), Rep(D, 2), Cls("dotunder"), Rep(D, 2)>>),
          <<Opt(Cat(<<Cls("dashunderdot"), Plus(Cls("digitdot"))>>)), Opt(ArchiveSuffix)>>)

Regex30 == Named(Cat(<<Plus(D), Lit("."), Plus(D)>>), <<Opt(ArchiveSuffix)>>)

Regex35 == Named(Plus(D), <<Opt(ArchiveSuffix)>>)

Regex100 ==
    Cat(<<Cap("name", LazyStar(Cls("any"))),
          Lit("-"),
          Cap("version", LazyPlus(Cls("notdashslash"))),
          Opt(Alt(<<ArchiveSuffix, Cat(<<Lit("."), Plus(Cls("word"))>>)>>)),
          End>>)

\* patterns a caller may add with add_pattern:
\*   (?P<name>[^/]+?)[-_](?P<version>[^/]+)$  the whole remainder as the version
\*   (?P<name>\w+)$                           no version group: never a full match
RegexRemainder ==
    Cat(<<Cap("name", LazyPlus(Cls("notslash"))), Cls("dashunder"),
          Cap("version", Plus(Cls("notslash"))), End>>)
RegexNameOnly == Cat(<<Cap("name", Plus(Cls("word"))), End>>)

\* Regex::new: the compiled form of a pattern, which a VersionPattern holds; the
\* state names it by its source
Regex(source) ==
    CASE source = "Regex5" -> Regex5
      [] source = "Regex10" -> Regex10
      [] source = "Regex25" -> Regex25
      [] source = "Regex30" -> Regex30
      [] source = "Regex35" -> Regex35
      [] source = "Regex100" -> Regex100
      [] source = "RegexRemainder" -> RegexRemainder
      [] source = "RegexNameOnly" -> RegexNameOnly

VersionPattern(style, pattern, priority) ==
    [style |-> style, pattern |-> pattern, priority |-> priority]

DefaultPatterns ==
    <<VersionPattern("DateBased", "Regex5", 5),
      VersionPattern("Semver", "Regex10", 10),
      VersionPattern("DateBased", "Regex25", 25),
      VersionPattern("Simple", "Regex30", 30),
      VersionPattern("Simple", "Regex35", 35),
      VersionPattern("Simple", "Regex100", 100)>>

\* an insertion that puts an element before the elements of its key
InsertStable_before_ties(sorted, p) ==
    LET lower == SelectSeq(sorted, LAMBDA q : q.priority < p.priority)
    IN  lower \o <<p>> \o SubSeq(sorted, Len(lower) + 1, Len(sorted))

\* Vec::sort_by_key(|p| p.priority): a stable sort (insertion of each element after
\* the elements whose key is not greater)
RECURSIVE InsertStable(_, _)
InsertStable(sorted, p) ==
    IF sorted = <<>> THEN <<p>>
    ELSE IF sorted[Len(sorted)].priority <= p.priority THEN Append(sorted, p)
    ELSE Append(InsertStable(SubSeq(sorted, 1, Len(sorted) - 1), p), sorted[Len(sorted)])

RECURSIVE sort_by_key(_)
sort_by_key(ps) ==
    IF ps = <<>> THEN <<>>
    ELSE InsertStable(sort_by_key(SubSeq(ps, 1, Len(ps) - 1)), ps[Len(ps)])

add_default_patterns == sort_by_key(DefaultPatterns)

VersionExtractor_new == add_default_patterns

\* add_pattern without the re-sort
add_pattern_unsorted(patterns, pattern) == Append(patterns, pattern)

add_pattern(patterns, pattern) == sort_by_key(Append(patterns, pattern))

Extraction(name, version) == [name |-> name, version |-> version]

\* the loop of extract over the table: the first pattern that matches with both groups
RECURSIVE MatchFrom(_, _, _)
MatchFrom(patterns, i, filename) ==
    IF i > Len(patterns) THEN Err("InvalidVersion")
    ELSE LET caps == Captures(Regex(patterns[i].pattern), filename)
         IN  IF caps.some /\ caps.v.name.some /\ caps.v.version.some
             THEN Ok(Extraction(caps.v.name.v, caps.v.version.v))
             ELSE MatchFrom(patterns, i + 1, filename)

\* the recursive call's result returned as it is, its name kept
WithName_kept(result, project) == result

\* .map(|matched| Extraction { name: project.to_string(), ..matched })
WithName(result, project) ==
    IF result.ok THEN Ok(Extraction(project, result.v.version)) ELSE result

RECURSIVE extract(_, _), try_extract_vcs_url(_, _)
extract(patterns, path) ==
    LET vcs == try_extract_vcs_url(patterns, path)
    IN  IF vcs.some THEN vcs.v
        ELSE LET filename == Last(Split(path, "/"))
             IN  IF filename.some THEN MatchFrom(patterns, 1, filename.v)
                 ELSE Err("InvalidVersion")

\* the arm of try_extract_vcs_url that a path takes: the project and the synthesized
\* filename (faux) it extracts from, or None when the call returns None
Arm(project, faux) == Some([project |-> project, faux |-> faux])
VcsArm(url, project, asset) ==
    IF host_str(url) = Some("github.com") /\ Contains(url.path, "archive/refs/tags/")
    THEN IF ~project.some \/ ~asset.some THEN None
         ELSE Arm(project.v, project.v \o "-" \o asset.v)
    ELSE IF host_str(url) = Some("gitlab.com")
            /\ Contains(url.path, "repository/archive.tar.gz")
    THEN IF ~project.some THEN None
         ELSE Arm(project.v, project.v \o "-archive.tar.gz")
    ELSE None

VcsParts(url, parts) == VcsArm(url, Get(parts, 2), Last(parts))

VcsParsed(parsed) ==
    IF ~parsed.ok THEN None ELSE VcsParts(parsed.v, Split(parsed.v.path, "/"))

faux(path) ==
    IF ~Contains(path, "github.com") /\ ~Contains(path, "gitlab.com") THEN None
    ELSE VcsParsed(UrlParse(path))

\* an arm whose failed extraction of the faux lets extract go on with the path
Rewritten_or_generic(patterns, arm) ==
    IF arm.some /\ extract(patterns, arm.v.faux).ok
    THEN Some(WithName(extract(patterns, arm.v.faux), arm.v.project))
    ELSE None

\* Some(self.extract(&faux).map(|matched| Extraction { name: project, ..matched }))
Rewritten(patterns, arm) ==
    IF arm.some THEN Some(WithName(extract(patterns, arm.v.faux), arm.v.project))
    ELSE None

try_extract_vcs_url(patterns, path) == Rewritten(patterns, faux(path))

(***************************************************************************)
(* host/github.rs, host/gnome.rs, host/plain.rs, host/mod.rs: constructors *)
(* and the dispatcher.                                                     *)
(***************************************************************************)
ParseError(reason) == [type |-> "ParseError", context |-> reason]
InvalidUrl(reason) == [type |-> "InvalidUrl", context |-> reason]
ApiRequest(context) == [type |-> "ApiRequest", context |-> context]
ApiResponse(context) == [type |-> "ApiResponse", context |-> context]

\* GithubHost::from_url without the filter of empty segments
GithubHost_from_url_unfiltered(url) ==
    LET parts == Tail(Split(url.path, "/"))
    IN  IF Len(parts) < 1 THEN Err(ParseError("missing repository owner in GitHub URL"))
        ELSE IF Len(parts) < 2 THEN Err(ParseError("missing repository name in GitHub URL"))
        ELSE Ok([kind |-> "Github", owner |-> parts[1], repo |-> parts[2], url |-> url])

GithubHost_from_url(url) ==
    LET parts == NonEmpty(Tail(Split(url.path, "/")))
    IN  IF Len(parts) < 1 THEN Err(ParseError("missing repository owner in GitHub URL"))
        ELSE IF Len(parts) < 2 THEN Err(ParseError("missing repository name in GitHub URL"))
        ELSE Ok([kind |-> "Github", owner |-> parts[1], repo |-> parts[2], url |-> url])

\* GnomeHost::from_url without the check of the first segment
GnomeHost_from_url_unchecked(url) ==
    LET parts == path_segments(url)
    IN  IF ~parts.some THEN Err(InvalidUrl("invalid URL format"))
        ELSE LET segs == NonEmpty(parts.v)
                 project == Get(segs, 1)
             IN  IF ~project.some THEN Err(InvalidUrl("invalid URL format"))
                 ELSE Ok([kind |-> "Gnome", project |-> project.v, url |-> url])

GnomeHost_from_url(url) ==
    LET parts == path_segments(url)
    IN  IF ~parts.some THEN Err(InvalidUrl("invalid URL format"))
        ELSE LET segs == NonEmpty(parts.v)
                 source_path == IF segs = <<>> THEN "" ELSE segs[1]
                 project == Get(segs, 1)
             IN  IF source_path # "sources" THEN Err(InvalidUrl("invalid URL format"))
                 ELSE IF ~project.some THEN Err(InvalidUrl("invalid URL format"))
                 ELSE Ok([kind |-> "Gnome", project |-> project.v, url |-> url])

PlainHost_from_url(url) ==
    LET parts == path_segments(url)
        segments == IF parts.some THEN parts.v ELSE <<>>
        popped == IF segments = <<>> THEN <<>> ELSE SubSeq(segments, 1, Len(segments) - 1)
    IN  [kind |-> "Plain",
         path |-> TrimStart(url.path, "/"),
         url |-> url,
         directory |-> Join(popped, "/")]

\* from_url that takes every host name holding "github.com" for GitHub
from_url_by_substring(url) ==
    IF host_str(url).some /\ Contains(host_str(url).v, "github.com")
    THEN GithubHost_from_url(url)
    ELSE Ok(PlainHost_from_url(url))

from_url(url) ==
    IF host_str(url) = Some("github.com") THEN GithubHost_from_url(url)
    ELSE Ok(PlainHost_from_url(url))

(***************************************************************************)
(* Ordered and hashed collections.                                         *)
(***************************************************************************)
\* the characters of the model's strings in their byte order
ByteOrder == "+-./0123456789:ABCDEFGHIJKLMNOPQRSTUVWXYZ_abcdefghijklmnopqrstuvwxyz"
Byte(c) == FindAny(ByteOrder, {c}, 1)

\* String's Ord: byte-wise lexicographic
RECURSIVE StrLess(_, _)
StrLess(a, b) ==
    IF b = "" THEN FALSE
    ELSE IF a = "" THEN TRUE
    ELSE IF Ch(a, 1) = Ch(b, 1) THEN StrLess(Tail(a), Tail(b))
    ELSE Byte(Ch(a, 1)) < Byte(Ch(b, 1))

\* AssetKind's and VersionedAsset's derived Ord: the fields in their order
KindRank(kind) == IF kind = "Release" THEN 0 ELSE 1
AssetLess(a, b) ==
    \/ StrLess(a.url, b.url)
    \/ a.url = b.url /\ KindRank(a.kind) < KindRank(b.kind)

\* the Ord of the element type T of a BTreeSet
OrdLess(T, a, b) == IF T = "String" THEN StrLess(a, b) ELSE AssetLess(a, b)

\* BTreeSet<T>::insert on the set's ascending sequence: an element equal to one that
\* is there (neither less than the other) is not inserted
RECURSIVE BTreeInsert(_, _, _)
BTreeInsert(T, set, x) ==
    IF set = <<>> THEN <<x>>
    ELSE IF OrdLess(T, x, Head(set)) THEN <<x>> \o set
    ELSE IF OrdLess(T, Head(set), x) THEN <<Head(set)>> \o BTreeInsert(T, Tail(set), x)
    ELSE set

RECURSIVE BTreeCollect(_, _, _)
BTreeCollect(T, set, xs) ==
    IF xs = <<>> THEN set
    ELSE BTreeCollect(T, BTreeInsert(T, set, Head(xs)), Tail(xs))

\* the orders in which a HashMap may iterate over the keys ks
Orderings(ks) ==
    {o \in [1..Cardinality(ks) -> ks] : \A i, j \in 1..Cardinality(ks) : i # j => o[i] # o[j]}

RECURSIVE Flatten(_)
Flatten(seqs) == IF seqs = <<>> THEN <<>> ELSE Head(seqs) \o Flatten(Tail(seqs))

(***************************************************************************)
(* host/github.rs: GithubHost::versions.                                   *)
(***************************************************************************)
Filter(xs, Keep(_)) == SelectSeq(xs, Keep)
Map(xs, F(_)) == [i \in 1..Len(xs) |-> F(xs[i])]

TagsUrl(host) == "https://api.github.com/repos/" \o host.owner \o "/" \o host.repo \o "/tags"
ReleasesUrl(host) ==
    "https://api.github.com/repos/" \o host.owner \o "/" \o host.repo \o "/releases"

\* fetch_tags, fetch_releases: what a failed call returns
FetchTagsError(failure) ==
    IF failure = "transport" THEN ApiRequest("failed to fetch tags")
    ELSE ApiResponse("failed to parse tags response")
\* fetch_releases with the map_err of fetch_tags
FetchReleasesError_pasted(failure) == FetchTagsError(failure)

FetchReleasesError(failure) ==
    IF failure = "transport" THEN ApiRequest("failed to fetch releases")
    ELSE ApiResponse("failed to parse releases response")

GithubAsset(url, kind) == [url |-> url, kind |-> kind]

\* what one release inserts: its tarball, then its attachments
ReleaseAssets(release) ==
    <<GithubAsset(release.tarball_url, "Release")>>
    \o Map(release.assets, LAMBDA a : GithubAsset(a.browser_download_url, "Autogenerated"))

\* the inserts of the loop body for one version, in the order the code makes them
GithubInserts(tagsV, releasesV, version) ==
    Map(Filter(tagsV, LAMBDA t : t.name = version),
        LAMBDA t : GithubAsset(t.tarball_url, "Autogenerated"))
    \o Flatten(Map(Filter(releasesV, LAMBDA r : r.tag_name = version), ReleaseAssets))

\* downloads as a Vec that every insert is pushed to
GithubDownloads_pushed(tagsV, releasesV, version) ==
    GithubInserts(tagsV, releasesV, version)

\* downloads: the BTreeSet, collected into a Vec
GithubDownloads(tagsV, releasesV, version) ==
    BTreeCollect("VersionedAsset", <<>>, GithubInserts(tagsV, releasesV, version))

GithubReleaseNotes(releasesV, version) ==
    LET matching == Filter(releasesV, LAMBDA r : r.tag_name = version)
    IN  IF matching = <<>> THEN None ELSE Some(matching[1].body)

GithubVersions(tagsV, releasesV) ==
    LET version_strings ==
            BTreeCollect("String", <<>>, Map(tagsV, LAMBDA t : t.name)
                                         \o Map(releasesV, LAMBDA r : r.tag_name))
    IN  Map(version_strings,
            LAMBDA v : [version |-> v,
                        downloads |-> GithubDownloads(tagsV, releasesV, v),
                        release_notes |-> GithubReleaseNotes(releasesV, v)])

\* versions() that answers with the tags alone when the releases call fails
GithubAfterReleases_partial(tagsV, fetched) ==
    IF fetched.ok THEN Ok(GithubVersions(tagsV, fetched.v))
    ELSE Ok(GithubVersions(tagsV, <<>>))

\* let releases = self.fetch_releases().await?; and the rest of versions()
GithubAfterReleases(tagsV, fetched) ==
    IF fetched.ok THEN Ok(GithubVersions(tagsV, fetched.v))
    ELSE Err(fetched.e)

(***************************************************************************)
(* host/gnome.rs: GnomeHost::versions.                                     *)
(***************************************************************************)
\* what versions() returns when the request (send) or its decoding (json) fails
GnomeFetchError(failure) ==
    IF failure = "transport" THEN ApiRequest("failed to fetch cache data")
    ELSE ApiResponse("failed to parse cache data")

CacheUrl(host) == "https://download.gnome.org/sources/" \o host.project \o "/cache.json"

Asset(url, kind) == [url |-> url, kind |-> kind, released_at |-> None, updated_at |-> None]

GnomeAsset(host, file) ==
    Asset("https://download.gnome.org/sources/" \o host.project \o "/" \o file, "Release")

GnomeDownloads(host, files) ==
    (IF files.tarxz.some THEN <<GnomeAsset(host, files.tarxz.v)>> ELSE <<>>)
    \o (IF files.targz.some THEN <<GnomeAsset(host, files.targz.v)>> ELSE <<>>)
    \o (IF files.tarbz2.some THEN <<GnomeAsset(host, files.tarbz2.v)>> ELSE <<>>)

GnomeMetadata(host, version, files) ==
    [version |-> version, downloads |-> GnomeDownloads(host, files),
     release_notes |-> None, released_at |-> None]

\* the results of the two loops: the components in an order the map may iterate in,
\* and the versions of each component likewise
GnomeExpand(host, components) ==
    LET names == DOMAIN components
        OfComponent(c) ==
            {Map(vo, LAMBDA v : GnomeMetadata(host, v, components[c][v])) :
                vo \in Orderings(DOMAIN components[c])}
        Picks == {f \in [names -> UNION {OfComponent(c) : c \in names}] :
                    \A c \in names : f[c] \in OfComponent(c)}
    IN  {Flatten(Map(co, LAMBDA c : pick[c])) : co \in Orderings(names), pick \in Picks}

\* versions() that expands the component of the host's project alone
GnomeVersions_project_only(host, components) ==
    GnomeExpand(host, [c \in DOMAIN components \cap {host.project} |-> components[c]])

\* the results of versions() once cache.json is decoded
GnomeVersions(host, components) == GnomeExpand(host, components)

(***************************************************************************)
(* host/plain.rs: PlainHost::versions.                                     *)
(***************************************************************************)
\* what versions() returns when the request (send) or the reading of the body (text)
\* fails
PlainFetchError(failure) ==
    IF failure = "transport" THEN ApiRequest("failed to fetch directory listing")
    ELSE ApiRequest("failed to read directory listing")

ListingUrl(host) ==
    host.url.scheme \o "://" \o (IF host.url.host.some THEN host.url.host.v ELSE "")
    \o "/" \o host.directory \o "/"

FullUrl(host, href) ==
    IF StartsWith(href, "http") THEN href
    ELSE (IF host.url.host.some THEN host.url.host.v ELSE "")
         \o host.directory \o "/" \o TrimStart(href, ".")

\* versions.entry(version).or_insert_with(Vec::new).push(asset)
EntryPush(versions, version, asset) ==
    [v \in DOMAIN versions \cup {version} |->
        IF v = version
        THEN Append(IF version \in DOMAIN versions THEN versions[version] ELSE <<>>, asset)
        ELSE versions[v]]

\* a loop body that compares the names without their case
PlainPush_ignore_case(host, name, versions, href, m) ==
    IF m.ok /\ Lower(m.v.name) = Lower(name)
    THEN EntryPush(versions, m.v.version, Asset(FullUrl(host, href), "Release"))
    ELSE versions

\* the loop body for one anchor, m the extraction of its href: it is kept if the
\* extraction succeeds with the name of match_us
PlainPush(host, name, versions, href, m) ==
    IF m.ok /\ m.v.name = name
    THEN EntryPush(versions, m.v.version, Asset(FullUrl(host, href), "Release"))
    ELSE versions

\* the map after the loop over the anchors: version -> downloads
RECURSIVE PlainGroup(_, _, _, _, _)
PlainGroup(host, matcher, name, hrefsV, versions) ==
    IF hrefsV = <<>> THEN versions
    ELSE PlainGroup(host, matcher, name, Tail(hrefsV),
                    PlainPush(host, name, versions, Head(hrefsV),
                              extract(matcher, Head(hrefsV))))

PlainMetadata(version, downloads) ==
    [version |-> version, downloads |-> downloads,
     release_notes |-> None, released_at |-> None]

\* the map's entries in an order the map may iterate in
PlainCollect(versions) ==
    {Ok(Map(o, LAMBDA v : PlainMetadata(v, versions[v]))) : o \in Orderings(DOMAIN versions)}

\* VersionError's Display: #[error("No version found in path")]
to_string(e) == IF e = "InvalidVersion" THEN "No version found in path" ELSE e

\* versions() that answers with nothing when the name of the URL cannot be extracted
PlainAfterMatch_unnamed(host, matcher, hrefsV, match_us) ==
    IF match_us.ok THEN PlainCollect(PlainGroup(host, matcher, match_us.v.name, hrefsV, <<>>))
    ELSE {Ok(<<>>)}

\* versions() after match_us is extracted from the URL and the listing is read
PlainAfterMatch(host, matcher, hrefsV, match_us) ==
    IF match_us.ok THEN PlainCollect(PlainGroup(host, matcher, match_us.v.name, hrefsV, <<>>))
    ELSE {Err(ParseError(to_string(match_us.e)))}

\* the results of versions() once the listing is read
PlainVersions(host, hrefsV) ==
    PlainAfterMatch(host, VersionExtractor_new, hrefsV,
                    extract(VersionExtractor_new, as_ref(host.url)))

(***************************************************************************)
(* The state.  The program is a library and a command line driver; each    *)
(* part is driven by its own specification and leaves the rest alone.      *)
(*   patterns, path, extraction, added: a VersionExtractor, the argument   *)
(*     of the last extract call on it, that call's result, and the number  *)
(*     of add_pattern calls made.                                          *)
(*   url, built: the Url given to the last constructor or dispatcher call, *)
(*     and that call: its name and its result.                             *)
(*   host, pc, tags, releases, cache, hrefs, ret, requests: a Host, where  *)
(*     its versions() call is ("start", the name of the answer it awaits,  *)
(*     "tagged" between the two calls of a GithubHost, "done"), what it    *)
(*     has fetched (the tags and the                                       *)
(*     releases of a GithubHost, the components of the cache.json of a     *)
(*     GnomeHost, the href of each anchor of the listing of a PlainHost),  *)
(*     what it returned, and the requests it has sent with their outcomes. *)
(*   args, argi, mpc, log, stdout, stderr, exit: a run of main: its        *)
(*     arguments, the one the loop is at, the statement of the loop body   *)
(*     to run next, the statements run (argument, statement, whether it    *)
(*     succeeded), the two streams, and what main returned.  The locals    *)
(*     ext, url, host and versions of main are patterns, url, host, ret.   *)
(***************************************************************************)
VARIABLES patterns, path, extraction, added, url, built,
          host, pc, tags, releases, cache, hrefs, ret, requests,
          args, argi, mpc, log, stdout, stderr, exit

extractorVars == <<patterns, path, extraction, added>>
constructVars == <<url, built>>
versionsVars == <<host, pc, tags, releases, cache, hrefs, ret, requests>>
mainVars == <<args, argi, mpc, log, stdout, stderr, exit>>
vars == <<extractorVars, constructVars, versionsVars, mainVars>>

(***************************************************************************)
(* Bounds and inputs.                                                      *)
(***************************************************************************)
\* the number of add_pattern calls on one extractor
MaxCustom == 2

CustomPatterns ==
    {VersionPattern("ReleaseSeries", "RegexRemainder", pr) : pr \in {1, 30, 50}}
    \cup {VersionPattern("Simple", "RegexNameOnly", 1)}

\* filenames with a "v" between the separator and the digits of the version
VNames ==
    {"nano-v1.2.3", "nano-v1.2.3.tar.gz", "foo_v1.2.3.zip", "foo-v20221030.tgz",
     "foo_v2024.01.15", "nano-v8.3.tar.xz", "foo-v7.zip", "nano-v1.9.16p2.tar.gz"}

FileNames ==
    VNames \cup
    {n \o "-" \o ver \o suf :
        n \in {"nano", "a-b"},
        ver \in {"20221030-3.1", "v1.2.3", "2024.01.15", "8.3", "7", "1.9.16p2"},
        suf \in {"", ".tar.gz", ".run"}}
    \cup {"foo_v1.2.3.zip", "foo_20221030.tgz", "README", "../",
          "dist/v8/nano-8.3.tar.xz", ""}

Owners == {"cli", "pop-os"}
Projects == {"cli", "cosmic-applets"}
Assets == {"v2.63.2.tar.gz", "epoch-1.0.0-alpha.6.tar.gz", "microcode-20250211.tar.gz",
           "latest", ""}

TagUrl(owner, project, asset) ==
    "https://github.com/" \o owner \o "/" \o project \o "/archive/refs/tags/" \o asset

TagUrls == {TagUrl(o, p, a) : o \in Owners, p \in Projects, a \in Assets}

\* a URL whose query follows the tags directory, and a URL of a scheme that is not
\* special, whose project segment reads as a tag-archive URL once "\\" stands for "/"
NestedUrls ==
    {"https://github.com/cli/cli/archive/refs/tags/?file=cli-1.0",
     "git://github.com/o/https:\\\\github.com\\archive\\refs\\tags\\/archive/refs/tags/x-1.0"}

VcsUrls ==
    TagUrls
    \cup {"https://gitlab.com/o/proj/-/repository/archive.tar.gz",
          "https://gitlab.com/o/proj/-/archive/v1.0/proj-v1.0.tar.gz",
          "https://github.com/cli/cli/releases/download/v2.63.2/gh_2.63.2_linux.tar.gz",
          "https://github.com/cli/cli",
          "github.com/cli/cli/archive/refs/tags/v2.63.2.tar.gz"}
    \cup NestedUrls

ExtractInputs == FileNames \cup VcsUrls

UrlHosts == {"github.com", "GitHub.com", "gist.github.com", "download.gnome.org"}
UrlPaths == {"", "/", "/test", "/test//", "//test", "/rust-lang/rust", "/o//r/",
             "/torvalds/linux/archive/refs/tags/v6.6.tar.gz",
             "/sources", "/sources/", "/sources//gtk", "/sources/gtk/3.24/gtk-3.24.33.tar.xz",
             "/pub/sources/gtk", "/dist/v8/nano-8.3.tar.xz"}
UrlStrings ==
    {"https://" \o h \o p : h \in UrlHosts, p \in UrlPaths}
    \cup {"mailto:sources/gtk", "file:///sources/gtk", "data:a/b"}
\* the Url values: what Url::parse returns for the strings it accepts
Urls == {UrlParse(s).v : s \in {t \in UrlStrings : UrlParse(t).ok}}

\* the length of the tags and of the releases a GithubHost is answered with, and the
\* number of anchors of a listing
MaxTags == 2
MaxReleases == 2
MaxHrefs == 2

SeqsUpTo(S, n) == UNION {[1..k -> S] : k \in 0..n}

TagNames == {"v1.0", "v2.0"}
TarballUrls == {"A", "B"}
GithubTagResponses == [name : TagNames, tarball_url : TarballUrls]
GithubReleaseResponses ==
    [tag_name : TagNames, tarball_url : TarballUrls, body : {"notes"},
     assets : {<<>>, <<[browser_download_url |-> "C"]>>}]
TagLists == SeqsUpTo(GithubTagResponses, MaxTags)
ReleaseLists == SeqsUpTo(GithubReleaseResponses, MaxReleases)

\* cache.json: components -> versions -> files
GnomeFiles ==
    {[tarxz |-> None, targz |-> None, tarbz2 |-> None],
     [tarxz |-> Some("3.24/gtk-3.24.33.tar.xz"), targz |-> None, tarbz2 |-> None],
     [tarxz |-> None, targz |-> Some("4.0/gtk-4.0.1.tar.gz"), tarbz2 |-> None],
     [tarxz |-> Some("3.24/gtk-3.24.33.tar.xz"), targz |-> Some("3.24/gtk-3.24.33.tar.gz"),
      tarbz2 |-> Some("3.24/gtk-3.24.33.tar.bz2")]}
GnomeVersionNames == {"3.24.33", "4.0.1"}
GnomeComponentNames == {"gtk", "glib"}
GnomeComponents == UNION {[vs -> GnomeFiles] : vs \in SUBSET GnomeVersionNames}
GnomeCaches == UNION {[cs -> GnomeComponents] : cs \in SUBSET GnomeComponentNames}

Hrefs == {"nano-8.3.tar.xz", "./nano-8.2.tar.gz", "../", "pico-1.0.tar.gz",
          "https://cdn.example.org/nano-8.3.tar.xz", "httpd-2.4.tar.gz",
          "Nano-8.3.tar.xz"}
Listings == SeqsUpTo(Hrefs, MaxHrefs)

VersionsHosts ==
    {GithubHost_from_url(UrlParse("https://github.com/cli/cli").v).v,
     GnomeHost_from_url(UrlParse("https://download.gnome.org/sources/gtk/3.24/").v).v,
     PlainHost_from_url(UrlParse("https://www.nano-editor.org/dist/v8/nano-8.3.tar.xz").v),
     PlainHost_from_url(UrlParse("https://example.org/pub/README").v),
     PlainHost_from_url(UrlParse("https://example.org/pub/httpd-2.4.1.tar.gz").v)}

(***************************************************************************)
(* The extractor: VersionExtractor::new, add_pattern, extract.             *)
(***************************************************************************)
ExtractorIdle ==
    /\ patterns = VersionExtractor_new
    /\ path = None
    /\ extraction = None
    /\ added = 0

ConstructIdle ==
    /\ url = None
    /\ built = None

VersionsIdle ==
    /\ host = None
    /\ pc = "idle"
    /\ tags = None
    /\ releases = None
    /\ cache = None
    /\ hrefs = None
    /\ ret = None
    /\ requests = <<>>

MainIdle ==
    /\ args = <<>>
    /\ argi = 0
    /\ mpc = "idle"
    /\ log = <<>>
    /\ stdout = <<>>
    /\ stderr = <<>>
    /\ exit = None

ExtractorInit == ExtractorIdle /\ ConstructIdle /\ VersionsIdle /\ MainIdle

\* add_pattern(&mut self, pattern): the table is built before the extractor is
\* shared for extraction
AddPattern ==
    /\ ~path.some
    /\ added < MaxCustom
    /\ \E p \in CustomPatterns : patterns' = add_pattern(patterns, p)
    /\ added' = added + 1
    /\ UNCHANGED <<path, extraction, constructVars, versionsVars, mainVars>>

\* extract(&self, path): a pure function of the table and the argument, so one call
\* per table and argument shows all it does
Extract ==
    /\ ~path.some
    /\ \E s \in ExtractInputs :
        /\ path' = Some(s)
        /\ extraction' = Some(extract(patterns, s))
    /\ UNCHANGED <<patterns, added, constructVars, versionsVars, mainVars>>

ExtractorNext == AddPattern \/ Extract

SpecExtractor == ExtractorInit /\ [][ExtractorNext]_vars

(***************************************************************************)
(* Claims about the extractor.                                             *)
(***************************************************************************)
\* what pattern p captures in filename f when it matches with both groups
Matches(p, f) ==
    LET caps == Captures(Regex(p.pattern), f)
    IN  caps.some /\ caps.v.name.some /\ caps.v.version.some
CapturedBy(p, f) ==
    LET caps == Captures(Regex(p.pattern), f)
    IN  Extraction(caps.v.name.v, caps.v.version.v)
Matching(f) == {i \in 1..Len(patterns) : Matches(patterns[i], f)}
FileNameOf(s) == LET parts == Split(s, "/") IN parts[Len(parts)]

\* C4: for an input that is matched generically, the result is the capture of the
\* first pattern of the table that matches the filename (the last "/"-delimited
\* segment) with both groups, no matching pattern has a lower priority number than
\* that one, and with no matching pattern the result is InvalidVersion.
C4_PriorityLaw ==
    (path.some /\ path.v \in FileNames) =>
        LET f == FileNameOf(path.v)
            m == Matching(f)
        IN  IF m = {} THEN extraction.v = Err("InvalidVersion")
            ELSE \E w \in m :
                    /\ \A j \in m : w <= j /\ patterns[w].priority <= patterns[j].priority
                    /\ extraction.v = Ok(CapturedBy(patterns[w], f))

\* two patterns of different priority match the filename with different captures,
\* and the result is the capture of the lower-numbered one
C4_Witness ==
    /\ path.some /\ path.v \in FileNames
    /\ \E i, j \in Matching(FileNameOf(path.v)) :
        /\ patterns[i].priority < patterns[j].priority
        /\ CapturedBy(patterns[i], FileNameOf(path.v)) # CapturedBy(patterns[j], FileNameOf(path.v))
        /\ extraction.v = Ok(CapturedBy(patterns[i], FileNameOf(path.v)))

DefaultTable == {DefaultPatterns[i] : i \in DOMAIN DefaultPatterns}
VInput == path.some /\ path.v \in VNames

Again(arm) == faux(arm.v.faux)

Sorted(ps) == \A i, j \in DOMAIN ps : i < j => ps[i].priority <= ps[j].priority
Defaults(ps) == SelectSeq(ps, LAMBDA q : q \in DefaultTable)

\* ps with p put after its elements of a priority up to p's and before the others
PutAfterTies(ps, p, after) ==
    \E k \in 0..Len(ps) :
        /\ after = SubSeq(ps, 1, k) \o <<p>> \o SubSeq(ps, k + 1, Len(ps))
        /\ \A i \in 1..k : ps[i].priority <= p.priority
        /\ \A i \in (k + 1)..Len(ps) : ps[i].priority > p.priority

\* C17: after construction and after any add_pattern calls the list is sorted
\* ascending by priority and holds the default patterns and one entry for each
\* added pattern; an add_pattern call puts its pattern after the patterns of the
\* same priority that are there, and leaves the others in their order.
C17_TableOrdering ==
    /\ [](/\ Sorted(patterns)
          /\ Len(patterns) = Len(DefaultPatterns) + added
          /\ Defaults(patterns) = DefaultPatterns)
    /\ [][patterns' # patterns =>
            \E p \in CustomPatterns : PutAfterTies(patterns, p, patterns')]_vars

\* a pattern added with priority 30 stands right after the default one of priority 30
C17_Witness ==
    /\ added = MaxCustom
    /\ \E i \in 1..(Len(patterns) - 1) :
        /\ patterns[i].pattern = "Regex30"
        /\ patterns[i + 1].pattern = "RegexRemainder"
        /\ patterns[i + 1].priority = 30

(***************************************************************************)
(* The constructors and the dispatcher, each called on a Url.              *)
(***************************************************************************)
ConstructInit == ExtractorIdle /\ ConstructIdle /\ VersionsIdle /\ MainIdle

Call(by, u, result) ==
    /\ ~built.some
    /\ url' = Some(u)
    /\ built' = Some([by |-> by, result |-> result])
    /\ UNCHANGED <<extractorVars, versionsVars, mainVars>>

\* GithubHost::from_url is given "the GitHub repository URL to parse": a URL with a host
CallGithubFromUrl ==
    \E u \in {x \in Urls : x.host.some} :
        Call("GithubHost::from_url", u, GithubHost_from_url(u))
CallGnomeFromUrl == \E u \in Urls : Call("GnomeHost::from_url", u, GnomeHost_from_url(u))
CallPlainFromUrl == \E u \in Urls : Call("PlainHost::from_url", u, Ok(PlainHost_from_url(u)))
CallFromUrl == \E u \in Urls : Call("from_url", u, from_url(u))

ConstructNext == CallGithubFromUrl \/ CallGnomeFromUrl \/ CallPlainFromUrl \/ CallFromUrl

SpecConstruct == ConstructInit /\ [][ConstructNext]_vars

\* the non-empty segments of the path of the Url of the call; a URL that cannot be a
\* base has no path segments
Segments == IF url.v.base THEN NonEmpty(Split(url.v.path, "/")) ELSE <<>>
CalledBy(by) == built.some /\ built.v.by = by
Result == built.v.result

\* C3 as stated: from_url on a URL whose host is github.com yields a GithubHost whose
\* owner and repo are the first two non-empty path segments, and a PlainHost on any
\* other host.
C3_AsStated ==
    CalledBy("from_url") =>
        IF host_str(url.v) = Some("github.com")
        THEN /\ Result.ok /\ Result.v.kind = "Github"
             /\ Len(Segments) >= 2
             /\ Result.v.owner = Segments[1] /\ Result.v.repo = Segments[2]
        ELSE Result.ok /\ Result.v.kind = "Plain"

\* C3, amended: from_url on a URL whose host is github.com yields a GithubHost whose
\* owner and repo are the first two non-empty path segments when the path has two,
\* and fails with ParseError when it has fewer; on any other host, or none, it yields
\* a PlainHost; it never yields a GnomeHost.
C3_DispatchLaw ==
    CalledBy("from_url") =>
        /\ IF host_str(url.v) = Some("github.com")
           THEN IF Len(Segments) >= 2
                THEN /\ Result.ok /\ Result.v.kind = "Github"
                     /\ Result.v.owner = Segments[1] /\ Result.v.repo = Segments[2]
                ELSE ~Result.ok /\ Result.e.type = "ParseError"
           ELSE Result.ok /\ Result.v.kind = "Plain"
        /\ Result.ok => Result.v.kind # "Gnome"

\* from_url has dispatched a github.com URL with fewer than two segments: an error
C3_Witness ==
    /\ CalledBy("from_url")
    /\ host_str(url.v) = Some("github.com")
    /\ Len(Segments) = 1
    /\ ~Result.ok

C9_GnomeFromUrl ==
    CalledBy("GnomeHost::from_url") =>
        IF Len(Segments) >= 2 /\ Segments[1] = "sources"
        THEN Result.ok /\ Result.v.project = Segments[2]
        ELSE ~Result.ok /\ Result.e.type = "InvalidUrl"

\* a path whose second segment, not its first, is "sources": InvalidUrl
C9_Witness ==
    /\ CalledBy("GnomeHost::from_url")
    /\ url.v.path = "/pub/sources/gtk"
    /\ ~Result.ok /\ Result.e.type = "InvalidUrl"

(***************************************************************************)
(* Host::versions of a host, with the answers of the remote endpoints.     *)
(***************************************************************************)
VersionsInit ==
    /\ ExtractorIdle /\ ConstructIdle /\ MainIdle
    /\ host \in {Some(h) : h \in VersionsHosts}
    /\ pc = "start"
    /\ tags = None
    /\ releases = None
    /\ cache = None
    /\ hrefs = None
    /\ ret = None
    /\ requests = <<>>

Request(to, outcome) == [url |-> to, outcome |-> outcome]

\* a request is sent: its answer is awaited
Send(to) == requests' = Append(requests, Request(to, "pending"))

\* a failed request that is sent once more
Answered_resent(outcome) ==
    requests' = IF outcome = "ok"
                THEN [requests EXCEPT ![Len(requests)].outcome = outcome]
                ELSE Append([requests EXCEPT ![Len(requests)].outcome = outcome],
                            Request(requests[Len(requests)].url, "pending"))

\* the await of the request sent last ends, with its answer or a failure
Answered(outcome) == requests' = [requests EXCEPT ![Len(requests)].outcome = outcome]
Return(result) == ret' = Some(result) /\ pc' = "done"
Is(kind) == host.v.kind = kind
NotVersions == <<extractorVars, constructVars, mainVars>>

\* fetch_tags sends its request
GithubSendTags ==
    /\ pc = "start" /\ Is("Github")
    /\ Send(TagsUrl(host.v))
    /\ pc' = "tags"
    /\ UNCHANGED <<host, tags, releases, cache, hrefs, ret, NotVersions>>

\* fetch_tags fails: the request (send) or the decoding of its answer (json)
GithubFetchTagsFails ==
    /\ pc = "tags" /\ Is("Github")
    /\ \E failure \in {"transport", "decode"} :
        /\ Answered(failure)
        /\ Return(Err(FetchTagsError(failure)))
    /\ UNCHANGED <<host, tags, releases, cache, hrefs, NotVersions>>

GithubFetchTags ==
    /\ pc = "tags" /\ Is("Github")
    /\ \E answer \in TagLists : tags' = Some(answer)
    /\ Answered("ok")
    /\ pc' = "tagged"
    /\ UNCHANGED <<host, releases, cache, hrefs, ret, NotVersions>>

\* fetch_releases sends its request, once fetch_tags()? has given the tags
GithubSendReleases ==
    /\ pc = "tagged" /\ Is("Github")
    /\ Send(ReleasesUrl(host.v))
    /\ pc' = "releases"
    /\ UNCHANGED <<host, tags, releases, cache, hrefs, ret, NotVersions>>

GithubFetchReleasesFails ==
    /\ pc = "releases" /\ Is("Github")
    /\ \E failure \in {"transport", "decode"} :
        /\ Answered(failure)
        /\ Return(GithubAfterReleases(tags.v, Err(FetchReleasesError(failure))))
    /\ UNCHANGED <<host, tags, releases, cache, hrefs, NotVersions>>

\* fetch_releases succeeds, and versions() runs to its end
GithubFetchReleases ==
    /\ pc = "releases" /\ Is("Github")
    /\ \E answer \in ReleaseLists :
        /\ releases' = Some(answer)
        /\ Return(GithubAfterReleases(tags.v, Ok(answer)))
    /\ Answered("ok")
    /\ UNCHANGED <<host, tags, cache, hrefs, NotVersions>>

GnomeSend ==
    /\ pc = "start" /\ Is("Gnome")
    /\ Send(CacheUrl(host.v))
    /\ pc' = "cache"
    /\ UNCHANGED <<host, tags, releases, cache, hrefs, ret, NotVersions>>

GnomeFetchFails ==
    /\ pc = "cache" /\ Is("Gnome")
    /\ \E failure \in {"transport", "decode"} :
        /\ Answered(failure)
        /\ Return(Err(GnomeFetchError(failure)))
    /\ UNCHANGED <<host, tags, releases, cache, hrefs, NotVersions>>

GnomeFetch ==
    /\ pc = "cache" /\ Is("Gnome")
    /\ \E answer \in GnomeCaches :
        /\ cache' = Some(answer)
        /\ \E result \in GnomeVersions(host.v, answer) : Return(Ok(result))
    /\ Answered("ok")
    /\ UNCHANGED <<host, tags, releases, hrefs, NotVersions>>

\* the request (send) or the reading of the body (text) fails
PlainSend ==
    /\ pc = "start" /\ Is("Plain")
    /\ Send(ListingUrl(host.v))
    /\ pc' = "listing"
    /\ UNCHANGED <<host, tags, releases, cache, hrefs, ret, NotVersions>>

PlainFetchFails ==
    /\ pc = "listing" /\ Is("Plain")
    /\ \E failure \in {"transport", "body"} :
        /\ Answered(failure)
        /\ Return(Err(PlainFetchError(failure)))
    /\ UNCHANGED <<host, tags, releases, cache, hrefs, NotVersions>>

\* the listing is read: its anchors' hrefs, and versions() runs to its end
PlainFetch ==
    /\ pc = "listing" /\ Is("Plain")
    /\ \E answer \in Listings :
        /\ hrefs' = Some(answer)
        /\ \E result \in PlainVersions(host.v, answer) : Return(result)
    /\ Answered("ok")
    /\ UNCHANGED <<host, tags, releases, cache, NotVersions>>

VersionsNext ==
    \/ GithubSendTags \/ GithubFetchTagsFails \/ GithubFetchTags
    \/ GithubSendReleases \/ GithubFetchReleasesFails \/ GithubFetchReleases
    \/ GnomeSend \/ GnomeFetchFails \/ GnomeFetch
    \/ PlainSend \/ PlainFetchFails \/ PlainFetch

SpecVersions == VersionsInit /\ [][VersionsNext]_vars

(***************************************************************************)
(* Properties of versions().                                               *)
(***************************************************************************)
Done == pc = "done"
Returned == Done /\ ret.v.ok
Failed(request) == request.outcome \notin {"ok", "pending"}
VersionsOf(list) == {list[i].version : i \in DOMAIN list}
UrlsOf(downloads, u) == {d \in DOMAIN downloads : downloads[d].url = u}

\* C1: when a tag and a release of a GithubHost have the same version identifier and
\* the same tarball_url, the downloads of the VersionMetadata of that version hold
\* only one entry with that url.
C1_DeduplicationLaw ==
    Returned /\ Is("Github") =>
        \A i \in DOMAIN tags.v, j \in DOMAIN releases.v :
            /\ tags.v[i].name = releases.v[j].tag_name
            /\ tags.v[i].tarball_url = releases.v[j].tarball_url
            => \A k \in DOMAIN ret.v.v :
                ret.v.v[k].version = tags.v[i].name =>
                    Cardinality(UrlsOf(ret.v.v[k].downloads, tags.v[i].tarball_url)) = 1

\* C2: the list a successful versions() returns holds no two VersionMetadata with the
\* same version, for every Host and every answer of the remote endpoint.
C2_VersionUniqueness ==
    Returned =>
        \A i, j \in DOMAIN ret.v.v : ret.v.v[i].version = ret.v.v[j].version => i = j

\* C6: versions() returns the full version set or an error: after a failed request
\* the result is an error, also when the tags of a GithubHost were fetched before
\* the releases call failed, and a successful result of a GithubHost names every
\* version of the tags and of the releases.
C6_NoPartialSuccess ==
    Done =>
        /\ (\E r \in DOMAIN requests : Failed(requests[r])) => ~ret.v.ok
        /\ ret.v.ok /\ Is("Github") =>
            /\ tags.some /\ releases.some
            /\ VersionsOf(ret.v.v) = VersionsOf(Map(tags.v, LAMBDA t : [version |-> t.name]))
                                     \cup VersionsOf(Map(releases.v,
                                                         LAMBDA r : [version |-> r.tag_name]))

\* the tags were fetched, the releases call failed, and versions() has returned
C6_Witness ==
    /\ Done /\ Is("Github")
    /\ tags.some /\ tags.v # <<>>
    /\ Len(requests) = 2 /\ Failed(requests[2])
    /\ ~ret.v.ok

Unextractable(href) == ~extract(VersionExtractor_new, href).ok
Extractable(href) == ~Unextractable(href)

\* C7 as stated: an InvalidVersion of the extractor on a scraped href surfaces, so a
\* PlainHost whose listing holds such an href returns an error.
C7_NeverSwallowed ==
    Done /\ Is("Plain") /\ hrefs.some =>
        ((\E i \in DOMAIN hrefs.v : Unextractable(hrefs.v[i])) => ~ret.v.ok)

\* C7, amended: every error raised during versions() is returned to the caller (a
\* failed request as ApiRequest, a failed decoding as ApiResponse, a failed extraction
\* of the reference name as ParseError), except the extractor's error on a scraped
\* href: that href is skipped, and the result is the one of the listing without it.
C7_SurfacedButHrefs ==
    Done =>
        /\ \A r \in DOMAIN requests : Failed(requests[r]) =>
            /\ ~ret.v.ok
            /\ ret.v.e.type = (IF requests[r].outcome = "decode"
                               THEN "ApiResponse" ELSE "ApiRequest")
        /\ Is("Plain") /\ hrefs.some =>
            IF Unextractable(as_ref(host.v.url))
            THEN ret.v = Err(ParseError("No version found in path"))
            ELSE ret.v \in PlainVersions(host.v, SelectSeq(hrefs.v, Extractable))

\* a listing with an href that has no version was read, and versions() succeeded
C7_Witness ==
    /\ Returned /\ Is("Plain")
    /\ \E i \in DOMAIN hrefs.v : Unextractable(hrefs.v[i])
    /\ \E i \in DOMAIN hrefs.v : Extractable(hrefs.v[i])
    /\ ret.v.v # <<>>

\* what the extractor finds in the URL of a PlainHost and in an href, and the hrefs
\* of the listing that it names like the URL
Reference == extract(VersionExtractor_new, as_ref(host.v.url))
Found(href) == extract(VersionExtractor_new, href)
Named_like(href) == Reference.ok /\ Found(href).ok /\ Found(href).v.name = Reference.v.name
KeptHrefs == {i \in DOMAIN hrefs.v : Named_like(hrefs.v[i])}
Listed == Returned /\ Is("Plain") /\ hrefs.some

\* an href is an absolute URL when it parses as a URL on its own
Absolute(href) == UrlParse(href).ok
Joined(href) ==
    host.v.url.host.v \o host.v.directory \o "/" \o TrimStart(href, ".")
\* C12: the asset url of a kept href is the href unchanged if the href is an absolute
\* URL, and otherwise, whatever the first characters of the relative href, the URL's
\* host, the directory and the href without its leading "." characters, joined.
C12_AssetUrlRule ==
    Listed => \A i \in KeptHrefs :
        \E k \in DOMAIN ret.v.v : \E d \in DOMAIN ret.v.v[k].downloads :
            ret.v.v[k].downloads[d].url =
                (IF Absolute(hrefs.v[i]) THEN hrefs.v[i] ELSE Joined(hrefs.v[i]))

AllDownloads == Flatten(Map(ret.v.v, LAMBDA m : m.downloads))
Holding(u) == {k \in DOMAIN ret.v.v : UrlsOf(ret.v.v[k].downloads, u) # {}}

TagsOf(v) == {i \in DOMAIN tags.v : tags.v[i].name = v}
ReleasesOf(v) == {j \in DOMAIN releases.v : releases.v[j].tag_name = v}
Composed(v) ==
    {GithubAsset(tags.v[i].tarball_url, "Autogenerated") : i \in TagsOf(v)}
    \cup {GithubAsset(releases.v[j].tarball_url, "Release") : j \in ReleasesOf(v)}
    \cup UNION {{GithubAsset(releases.v[j].assets[a].browser_download_url, "Autogenerated") :
                    a \in DOMAIN releases.v[j].assets} : j \in ReleasesOf(v)}
Elements(list) == {list[i] : i \in DOMAIN list}

\* C14: the versions a GithubHost returns are exactly the tag names and the release
\* tag_names, and the downloads of version v are exactly the tarballs of the tags
\* named v (Autogenerated), the tarballs of the releases of v (Release) and the
\* attachments of those releases (Autogenerated), no (url, kind) pair twice.
C14_AssetComposition ==
    Returned /\ Is("Github") =>
        /\ VersionsOf(ret.v.v) = {tags.v[i].name : i \in DOMAIN tags.v}
                                 \cup {releases.v[j].tag_name : j \in DOMAIN releases.v}
        /\ \A k \in DOMAIN ret.v.v :
            /\ Elements(ret.v.v[k].downloads) = Composed(ret.v.v[k].version)
            /\ Len(ret.v.v[k].downloads) = Cardinality(Composed(ret.v.v[k].version))

\* two tags with the same name and tarball and a release of that version with an
\* attachment: one Autogenerated entry for the tarball, three downloads in all
C14_Witness ==
    /\ Returned /\ Is("Github")
    /\ Len(tags.v) = 2 /\ tags.v[1] = tags.v[2]
    /\ Len(releases.v) = 1 /\ releases.v[1].tag_name = tags.v[1].name
    /\ releases.v[1].assets # <<>>
    /\ Len(ret.v.v) = 1 /\ Len(ret.v.v[1].downloads) = 3

\* the remote call of a request of a GithubHost
CallOf(request) ==
    IF request.url = TagsUrl(host.v) THEN "tags"
    ELSE IF request.url = ReleasesUrl(host.v) THEN "releases" ELSE "other"
Other(call) == IF call = "tags" THEN "releases" ELSE "tags"

\* C15: a transport failure of the tags call or of the releases call of a GithubHost
\* surfaces as ApiRequest and a decode failure as ApiResponse, the context names the
\* call that failed and not the other, and when the tags call fails the error is
\* the one of the tags call, whatever the releases call would have done.
C15_ErrorMapping ==
    Done /\ Is("Github") =>
        /\ \A r \in DOMAIN requests : Failed(requests[r]) =>
            /\ ~ret.v.ok
            /\ ret.v.e.type = (IF requests[r].outcome = "transport"
                               THEN "ApiRequest" ELSE "ApiResponse")
            /\ CallOf(requests[r]) \in {"tags", "releases"}
            /\ Contains(ret.v.e.context, CallOf(requests[r]))
            /\ ~Contains(ret.v.e.context, Other(CallOf(requests[r])))
        /\ Failed(requests[1]) => Len(requests) = 1 /\ CallOf(requests[1]) = "tags"
        /\ ~ret.v.ok => Failed(requests[Len(requests)])

\* the tags were fetched and the answer of the releases call could not be decoded
C15_Witness ==
    /\ Done /\ Is("Github")
    /\ Len(requests) = 2 /\ requests[2].outcome = "decode"
    /\ ret.v = Err(ApiResponse("failed to parse releases response"))

Pending == {r \in DOMAIN requests : requests[r].outcome = "pending"}

\* C16: the requests of one versions() call are sequential: a request is sent only
\* when none is awaited, so at most one, the last, is pending; a GithubHost sends the
\* releases request only after the tags request was answered and decoded, so none
\* after a failed tags call; and no request is sent twice.
C16_RequestOrdering ==
    /\ [](/\ Pending \subseteq {Len(requests)}
          /\ \A r \in 1..(Len(requests) - 1) : requests[r].outcome = "ok"
          /\ \A q, r \in DOMAIN requests : requests[q].url = requests[r].url => q = r
          /\ (host.some /\ Is("Github")) =>
                \A r \in DOMAIN requests :
                    IF r = 1 THEN CallOf(requests[r]) = "tags"
                    ELSE /\ r = 2 /\ CallOf(requests[r]) = "releases"
                         /\ requests[1].outcome = "ok" /\ tags.some
          /\ (host.some /\ ~Is("Github")) => Len(requests) <= 1
          /\ Done => Pending = {})
    /\ [][\/ requests' = requests
          \/ Pending = {} /\ ~Done /\ Len(requests') = Len(requests) + 1
             /\ SubSeq(requests', 1, Len(requests)) = requests
             /\ requests'[Len(requests')].outcome = "pending"
          \/ Pending # {} /\ Len(requests') = Len(requests)
             /\ \A r \in DOMAIN requests :
                    /\ requests'[r].url = requests[r].url
                    /\ r \notin Pending => requests'[r] = requests[r]
                    /\ r \in Pending => requests'[r].outcome # "pending"]_vars

\* the tags call of a GithubHost failed, and versions() returned with that one
\* request sent
C16_Witness ==
    /\ Done /\ Is("Github")
    /\ Len(requests) = 1 /\ Failed(requests[1])
    /\ ~tags.some

\* the (component, version) pairs of the manifest, and what the claim has for one
Pairs == {cv \in (DOMAIN cache.v) \X GnomeVersionNames : cv[2] \in DOMAIN cache.v[cv[1]]}
Variants(files) == {f \in {files.tarxz, files.targz, files.tarbz2} : f.some}
Emitted(record, cv) ==
    LET files == cache.v[cv[1]][cv[2]]
    IN  /\ record.version = cv[2]
        /\ Len(record.downloads) = Cardinality(Variants(files))
        /\ Elements(record.downloads) =
            {[url |-> "https://download.gnome.org/sources/" \o host.v.project \o "/" \o f.v,
              kind |-> "Release", released_at |-> None, updated_at |-> None] :
                f \in Variants(files)}
        /\ record.release_notes = None
        /\ record.released_at = None

\* C18: for every component of the manifest, the host's project or not, and every
\* version under it, one VersionMetadata is returned, with one Release asset for
\* each of tar.xz, tar.gz, tar.bz2 that is present, its url the base path, the
\* host's project and the filename, and with no release_notes and no released_at.
C18_GnomeExpansion ==
    Returned /\ Is("Gnome") =>
        \E pairing \in [DOMAIN ret.v.v -> Pairs] :
            /\ \A cv \in Pairs : \E k \in DOMAIN ret.v.v : pairing[k] = cv
            /\ \A j, k \in DOMAIN ret.v.v : pairing[j] = pairing[k] => j = k
            /\ \A k \in DOMAIN ret.v.v : Emitted(ret.v.v[k], pairing[k])

\* a manifest with a component that is not the host's project, with a version of
\* three archives and a version of none
C18_Witness ==
    /\ Returned /\ Is("Gnome")
    /\ \E c \in DOMAIN cache.v :
        /\ c # host.v.project
        /\ \E v, w \in DOMAIN cache.v[c] :
            /\ Cardinality(Variants(cache.v[c][v])) = 3
            /\ Cardinality(Variants(cache.v[c][w])) = 0
    /\ \E k \in DOMAIN ret.v.v : Len(ret.v.v[k].downloads) = 3
    /\ \E k \in DOMAIN ret.v.v : Len(ret.v.v[k].downloads) = 0

(***************************************************************************)
(* main.rs: main, one run over its positional arguments.                   *)
(***************************************************************************)
\* the number of positional arguments
MaxArgs == 2

ArgStrings ==
    {"README", "nano-8.3.tar.xz", "https://github.com/cli-1.0",
     "https://github.com/cli/cli/archive/refs/tags/v2.63.2.tar.gz",
     "https://www.nano-editor.org/dist/v8/nano-8.3.tar.xz"}

\* what the remote endpoints may answer during a run
RemoteTags == {<<>>, <<[name |-> "v2.63.2", tarball_url |-> "A"]>>}
RemoteReleases ==
    {<<>>, <<[tag_name |-> "v2.63.2", tarball_url |-> "A", body |-> "notes", assets |-> <<>>]>>}
RemoteListings == {<<>>, <<"../", "nano-8.3.tar.xz", "nano-8.2.tar.gz">>}

\* host.versions().await: the results the call may have, over the failures and the
\* answers of the remote endpoints
VersionsOutcomes(h) ==
    IF h.kind = "Github"
    THEN {Err(FetchTagsError(f)) : f \in {"transport", "decode"}}
         \cup {GithubAfterReleases(t, fetched) :
                t \in RemoteTags,
                fetched \in {Err(FetchReleasesError(f)) : f \in {"transport", "decode"}}
                            \cup {Ok(r) : r \in RemoteReleases}}
    ELSE {Err(PlainFetchError(f)) : f \in {"transport", "body"}}
         \cup UNION {PlainVersions(h, l) : l \in RemoteListings}

MainInit ==
    /\ ExtractorIdle /\ ConstructIdle /\ VersionsIdle
    /\ args \in SeqsUpTo(ArgStrings, MaxArgs)
    /\ argi = 0
    /\ mpc = "next"
    /\ log = <<>>
    /\ stdout = <<>>
    /\ stderr = <<>>
    /\ exit = None

\* a failed statement that the loop goes on after, with the next argument
Try_continue(result, next) == IF result.ok THEN next ELSE "next"

\* the ? after a statement: on Err main returns, else the next statement runs
Try(result, next) == IF result.ok THEN next ELSE "exit"

Ran(statement, result, next) ==
    /\ log' = Append(log, [arg |-> argi, statement |-> statement, ok |-> result.ok])
    /\ mpc' = Try(result, next)
    /\ exit' = IF result.ok THEN exit ELSE Some(Err(result.e))

MainRest == <<extractorVars, built, pc, tags, releases, cache, hrefs, requests>>

\* for arg in args: the next argument, or Ok(()) after the last
MainNext ==
    /\ mpc = "next"
    /\ \/ /\ argi < Len(args)
          /\ argi' = argi + 1
          /\ mpc' = "extract"
          /\ exit' = None
       \/ /\ argi >= Len(args)
          /\ argi' = argi
          /\ mpc' = "exit"
          /\ exit' = Some(Ok(<<>>))
    /\ UNCHANGED <<args, log, stdout, stderr, url, host, ret, MainRest>>

\* let version = ext.extract(&arg)?; eprintln!(...)
Extracted(version) ==
    /\ Ran("extract", version, "parse")
    /\ stderr' = IF version.ok
                 THEN Append(stderr, "name = " \o version.v.name
                                     \o ", version = " \o version.v.version)
                 ELSE stderr
    /\ UNCHANGED <<args, argi, stdout, url, host, ret, MainRest>>

MainExtract == mpc = "extract" /\ Extracted(extract(patterns, args[argi]))

\* let url = url::Url::parse(&arg)?
Parsed(parsed) ==
    /\ Ran("parse", parsed, "from_url")
    /\ url' = IF parsed.ok THEN Some(parsed.v) ELSE url
    /\ UNCHANGED <<args, argi, stdout, stderr, host, ret, MainRest>>

MainParse == mpc = "parse" /\ Parsed(UrlParse(args[argi]))

\* let host = host::from_url(&url)?
Dispatched(made) ==
    /\ Ran("from_url", made, "versions")
    /\ host' = IF made.ok THEN Some(made.v) ELSE host
    /\ UNCHANGED <<args, argi, stdout, stderr, url, ret, MainRest>>

MainFromUrl == mpc = "from_url" /\ Dispatched(from_url(url.v))

\* let versions = host.versions().await?
MainVersions ==
    /\ mpc = "versions"
    /\ \E result \in VersionsOutcomes(host.v) :
        /\ Ran("versions", result, "print")
        /\ ret' = IF result.ok THEN Some(result.v) ELSE ret
    /\ UNCHANGED <<args, argi, stdout, stderr, url, host, MainRest>>

\* let c = to_colored_json_auto(&versions)?; println!("{}", c): the list is of
\* strings and options of strings, which serde_json always serializes; stdout gets
\* one entry for the argument, the list that was serialized
MainPrint ==
    /\ mpc = "print"
    /\ Ran("print", Ok(<<>>), "next")
    /\ stdout' = Append(stdout, [arg |-> argi, versions |-> ret.v])
    /\ UNCHANGED <<args, argi, stderr, url, host, ret, MainRest>>

MainStep ==
    \/ MainNext
    \/ MainExtract
    \/ MainParse
    \/ MainFromUrl
    \/ MainVersions
    \/ MainPrint

SpecMain == MainInit /\ [][MainStep]_vars

Statements == <<"extract", "parse", "from_url", "versions", "print">>
StatementNo(statement) == CHOOSE n \in DOMAIN Statements : Statements[n] = statement

\* the statement that follows entry e of the log when e succeeded
Follows(e, f) ==
    IF e.statement = "print"
    THEN f.arg = e.arg + 1 /\ f.statement = "extract"
    ELSE f.arg = e.arg /\ StatementNo(f.statement) = StatementNo(e.statement) + 1

Prints == SelectSeq(log, LAMBDA e : e.statement = "print")

\* C10: the arguments are processed one at a time in order, each one through extract,
\* URL parse, from_url, versions() and print before the next starts; the first failed
\* statement ends the run, so no statement of any argument runs after it; and the
\* output printed for earlier arguments stays.
C10_RunSemantics ==
    /\ [](/\ log # <<>> => log[1].arg = 1 /\ log[1].statement = "extract"
          /\ \A k \in 1..(Len(log) - 1) : log[k].ok /\ Follows(log[k], log[k + 1])
          /\ \A k \in DOMAIN log : log[k].arg \in DOMAIN args
          /\ Len(stdout) = Len(Prints)
          /\ \A k \in DOMAIN stdout : stdout[k].arg = Prints[k].arg
          /\ exit.some => IF exit.v.ok
                          THEN Len(stdout) = Len(args)
                          ELSE log # <<>> /\ ~log[Len(log)].ok)
    /\ [][/\ exit.some => UNCHANGED <<log, stdout, stderr, exit>>
          /\ SubSeq(stdout', 1, Len(stdout)) = stdout]_vars

\* the second argument failed after the first was printed: the run is over, with the
\* first argument's output on stdout
C10_Witness ==
    /\ exit.some /\ ~exit.v.ok
    /\ argi = 2 /\ Len(args) = 2
    /\ Len(stdout) = 1
    /\ log[Len(log)].arg = 2 /\ ~log[Len(log)].ok

=============================================================================
